---- MODULE Spec2Model ----
(***************************************************************************)
(* Model of wopr-plugin-voice-whisper-local, src/provider.ts:              *)
(*   WhisperLocalProvider  - server lifecycle (ensureServerRunning,        *)
(*                           _doStartServer, startContainer, shutdown),    *)
(*                           createSession and transcribe                  *)
(*   WhisperLocalSession   - sendAudio, endAudio, waitForTranscript, close *)
(*                                                                         *)
(* The program runs on one event loop.  Every `await` of the source is a   *)
(* suspension point: the code between two awaits is one atomic action.     *)
(* Each asynchronous call (a caller of createSession / transcribe, a start *)
(* operation, a shutdown, a waitForTranscript) is a process with a program *)
(* counter naming the await it is suspended in.                            *)
(***************************************************************************)
EXTENDS Integers, Sequences, FiniteSets, TLC

\* ------------------------------------------------------------------ bounds
\* Concurrent callers of createSession / transcribe on the one provider.
NCallers == 2
\* Container ids the container runtime can hand out.
MaxContainers == 1
\* Health polls that fit into the start ceiling: the clock of a start
\* operation advances by maxWait \div MaxPolls per elapsed poll sleep.
MaxPolls == 1

\* Audio chunks a session buffers before it is full.
MaxChunks == 2

\* -------------------------------------------------------- program constants
maxWait == 60000
pollIntervalMs == 1000
defaultTimeoutMs == 30000
sessionPollMs == 100

Callers == 1..NCallers
\* A start operation is identified by the caller whose call created it: that
\* caller stays suspended on the operation's promise until it settles.
Ops == Callers
ContainerIds == 1..MaxContainers
NoOp == 0
NoContainer == 0

\* Time that passes while a start operation sleeps between two polls.  The
\* timer fires no earlier than pollIntervalMs after it was set.
Quantum == IF maxWait \div MaxPolls < pollIntervalMs THEN pollIntervalMs ELSE maxWait \div MaxPolls

\* Time that passes while waitForTranscript sleeps between two looks at `ended`.
SessionQuantum ==
    IF defaultTimeoutMs \div MaxPolls < sessionPollMs THEN sessionPollMs
    ELSE defaultTimeoutMs \div MaxPolls

\* Audio chunks (byte sequences) callers send, and the timeoutMs they wait with.
Audio == {<<1>>, <<2, 3>>}
Timeouts == {0, defaultTimeoutMs}

Kinds == {"createSession", "transcribe"}

VARIABLES
    \* --- WhisperLocalProvider fields
    startingServer,   \* _startingServer: NoOp (null) or the operation the promise belongs to
    containerId,      \* containerId: NoContainer (undefined) or a container id
    docker,           \* docker: FALSE (undefined) or TRUE (a Docker client object)
    \* --- callers of createSession / transcribe
    pc,               \* "idle", or the await the caller is suspended in
    awaiting,         \* the start operation whose promise the caller awaits
    \* --- start operations (_doStartServer / startContainer activations)
    opPc,             \* "none", or the await the operation is suspended in
    elapsed,          \* Date.now() - startTime of the operation's poll loop
    opContainer,      \* the container object the operation created
    \* --- the container runtime (Docker daemon side)
    containers,       \* state of each container: "absent", "created", "running"
    \* --- shutdown()
    shPc,             \* "idle", or the await the shutdown call is suspended in
    shTarget,         \* the container object shutdown() fetched
    \* --- the record of each caller's call, kept from the call's start until the
    \*     step after its return (the state in which the caller holds the result)
    outcome,          \* how the call settled, None before
    healthyBasis,     \* a health probe that answered healthy let the call pass ensureServerRunning
    posted,           \* the call issued a transcription POST
    reply,            \* the response the call's POST settled with
    \* --- one WhisperLocalSession
    chunks,           \* chunks: the buffered audio chunks, in arrival order
    ended,            \* ended
    \* --- waitForTranscript calls on the session
    wPc,              \* "idle", or the await the call is suspended in
    wElapsed,         \* Date.now() - startTime of the call's wait loop
    wTimeout,         \* the call's timeoutMs
    wPayload,         \* the file part of the POST the call has in flight
    wReturn,          \* how the call settled, in the step after its return; None otherwise
    wReply,           \* the response the call's POST settled with, in that same step
    \* --- the session's synchronous methods
    lastCall,         \* the method that ran in the last step and how it returned
    \* --- history of the session
    closed,           \* close() has been called
    timedOut,         \* a waitForTranscript call has failed with the transcript timeout
    sent,             \* the chunks sendAudio has accepted, in the order of the calls
    \* --- the plugin module (index.ts) and its host
    ctx,              \* ctx: NoContext (null) or the context of the last init()
    cleanups,         \* cleanups: the registered cleanup closures, in registration order
    schemas,          \* per context: the plugin's config schema is registered on it
    sttProviders,     \* per context: an STT provider of the plugin is registered on it
    plPc,             \* "idle", or "await": plugin shutdown() is suspended in a cleanup
    plIndex,          \* the loop index i of the suspended shutdown(), counted from 1
    \* --- the record of the last plugin call
    ran,              \* the cleanups the last shutdown() has invoked so far, as <<index, closure>>
    plSnapshot,          \* the cleanups registered when the last shutdown() was called
    lastInit,         \* the init() that ran in the last step: its configuration and how it
                      \* returned; NoInit otherwise
    \* --- history of the plugin's host
    regOn,            \* the contexts init() has registered the schema on since the last
                      \* shutdown() returned
    unregOn,          \* the contexts the last shutdown() has called unregisterConfigSchema on
    \* --- history of the provider's shutdown()
    torn,             \* the start operations in flight when the last shutdown() returned; emptied
                      \* when a new start begins
    \* --- the plugin module of the single-file variant and its WebMCP handlers
    provider,         \* provider: Absent (null) or the configuration of the provider init() built
    configured,       \* the host's configuration that provider was built from
    modPc,            \* "idle", or "shutdown": shutdown() is suspended in provider.shutdown()
    hPc,              \* "idle", or "health": a getStatus handler is suspended in healthCheck()
    hReply,           \* the handler call that settled in the last step; NoAnswer otherwise
    \* --- the language of transcription requests
    language,         \* config.language of the provider
    sessOptions,      \* options of the session createSession made; NoSession before
    sessAsked,        \* the options argument of that createSession call
    lastPost          \* the transcription request sent in the last step; NoPost otherwise

provVars == <<startingServer, containerId, docker>>
callVars == <<pc, awaiting>>
opVars   == <<opPc, elapsed, opContainer>>
shVars   == <<shPc, shTarget>>
histVars == <<outcome, healthyBasis, posted, reply>>
lifecycleVars == <<provVars, callVars, opVars, containers, shVars, histVars>>
sessVars == <<chunks, ended, wPc, wElapsed, wTimeout, wPayload, wReturn, wReply, lastCall, closed,
              timedOut, sent>>
pluginVars == <<ctx, cleanups, schemas, sttProviders, plPc, plIndex, ran, plSnapshot, lastInit,
                regOn, unregOn>>
handlerVars == <<provider, configured, modPc, hPc, hReply>>
langVars == <<language, sessOptions, sessAsked, lastPost>>
otherVars == <<torn, handlerVars, langVars>>
vars == <<lifecycleVars, sessVars, pluginVars, otherVars>>

\* ------------------------------------------------------------------ results
\* What a call hands back: nothing yet, a value, or a thrown error.
None == [tag |-> "none"]
SessionResult == [tag |-> "session"]
TextResult(t) == [tag |-> "text", text |-> t]
Failure(n) == [tag |-> "error", name |-> n]
RemoteServerError(status, body) ==
    [tag |-> "error", name |-> "RemoteServerError", status |-> status, body |-> body]
Resolved == [tag |-> "ok"]

\* Responses of the inference endpoint to a transcription POST: a status, the
\* parsed JSON body's text field (<<>> when the field is absent, else <<text>>)
\* and the raw body text; status 0 stands for no response before the abort
\* timer fires.  Where the call's fate after the POST is all that matters, one
\* success and one failure are drawn.
Responses ==
    {[status |-> 200, text |-> <<"hello world">>, body |-> "json"],
     [status |-> 500, text |-> <<>>, body |-> "boom"]}

\* Every response the endpoint can give: the status classes around the bounds
\* of the success range, with a text, the empty text and no text field in the
\* body, and the abort.
Statuses == {200, 299, 300, 404, 500}
ReplyResponses ==
    [status : Statuses, text : {<<"hello world">>, <<"">>, <<>>}, body : {"json", "boom"}]
      \cup {[status |-> 0, text |-> <<>>, body |-> "aborted"]}

\* No response: the call's POST has not settled in the last step.
NoReply == [status |-> -1, text |-> <<>>, body |-> ""]
NoReplies == [c \in Callers |-> NoReply]

\* Variant: every status below 500 is taken for a success.
ResponseOkLoose(resp) == resp.status >= 200 /\ resp.status <= 499

\* response.ok
ResponseOk(resp) == resp.status >= 200 /\ resp.status <= 299

\* Variant: a body without a text field yields no transcript but the body.
TextOrBody(t) == IF t = <<>> THEN "json" ELSE t[1]

\* `result.text ?? ""`
TextOrEmpty(t) == IF t = <<>> THEN "" ELSE t[1]

\* What waitForTranscript and transcribe make of the settled fetch: the abort
\* rejection propagates, a non-success status throws with status and body, and
\* otherwise `result.text ?? ""` is returned.
ParseResponse(resp) ==
    IF resp.status = 0 THEN Failure("AbortError")
    ELSE IF ~ResponseOk(resp) THEN RemoteServerError(resp.status, resp.body)
    ELSE TextResult(TextOrEmpty(resp.text))

\* ------------------------------------------------------------ initial state
\* A provider after construction, no call made yet.
LifecycleInit ==
    /\ startingServer = NoOp
    /\ containerId = NoContainer
    /\ docker = FALSE
    /\ pc = [c \in Callers |-> "idle"]
    /\ awaiting = [c \in Callers |-> NoOp]
    /\ opPc = [o \in Ops |-> "none"]
    /\ elapsed = [o \in Ops |-> 0]
    /\ opContainer = [o \in Ops |-> NoContainer]
    /\ containers = [k \in ContainerIds |-> "absent"]
    /\ shPc = "idle"
    /\ shTarget = NoContainer
    /\ outcome = [c \in Callers |-> None]
    /\ healthyBasis = [c \in Callers |-> FALSE]
    /\ posted = [c \in Callers |-> FALSE]
    /\ reply = NoReplies

\* ------------------------------------------------------------ call records
\* The record of a call that returned before this step is dropped.
InCall(c) == pc[c] # "idle"
KeptOutcome == [c \in Callers |-> None]
KeptBasis == [c \in Callers |-> InCall(c) /\ healthyBasis[c]]
KeptPosted == [c \in Callers |-> InCall(c) /\ posted[c]]

\* A step in which no caller's call goes on or returns.
NoCallStep ==
    /\ outcome' = KeptOutcome
    /\ reply' = NoReplies
    /\ healthyBasis' = KeptBasis
    /\ posted' = KeptPosted

\* ------------------------------------------------ createSession / transcribe
\* Variant: the rejection of ensureServerRunning is swallowed.
EnsureLetsThroughAlways(r) == TRUE

\* `await this.ensureServerRunning()` lets the call go on only when it resolved.
EnsureLetsThrough(r) == r = Resolved

\* The code of createSession / transcribe (k) that follows
\* `await this.ensureServerRunning()`, run when that promise settles with r.
\* A rejection propagates out of the call.  Otherwise createSession returns a
\* new session and transcribe issues its POST and is suspended in it.
PcAfterEnsure(k, r) ==
    IF EnsureLetsThrough(r) /\ k = "transcribe" THEN "post" ELSE "idle"

OutcomeAfterEnsure(k, r) ==
    IF ~EnsureLetsThrough(r) THEN r
    ELSE IF k = "createSession" THEN SessionResult ELSE None

PostedAfterEnsure(k, r) == EnsureLetsThrough(r) /\ k = "transcribe"

\* ------------------------------------------------- ensureServerRunning
\* Variant: the guard is not consulted.
GuardIgnored(g) == FALSE

\* `if (this._startingServer)`: a start operation's promise is in the guard.
GuardSet(g) == g # NoOp

\* First pending await of startContainer(): the dynamic import when no Docker
\* client exists yet, else the image pull.
FirstStartStep(d) == IF d THEN "pull" ELSE "import"

\* A caller enters createSession or transcribe; ensureServerRunning runs up to
\* its first await: the guard's promise, or a health probe of its own.  (Which
\* of the two methods it is plays no part before ensureServerRunning settles;
\* it is drawn where the method's own code goes on.)
Call(c) ==
    /\ pc[c] = "idle"
    /\ NoCallStep
    /\ IF GuardSet(startingServer)
         THEN /\ pc' = [pc EXCEPT ![c] = "await"]
              /\ awaiting' = [awaiting EXCEPT ![c] = startingServer]
         ELSE /\ pc' = [pc EXCEPT ![c] = "probe"]
              /\ awaiting' = [awaiting EXCEPT ![c] = NoOp]
    /\ UNCHANGED <<provVars, opVars, containers, shVars, sessVars, pluginVars, otherVars>>

\* Variant: the guard is taken before the probe's answer is looked at.
ProbeHealthyTakesGuard(c, k) ==
    /\ pc[c] = "probe"
    /\ pc' = [pc EXCEPT ![c] = PcAfterEnsure(k, Resolved)]
    /\ outcome' = [KeptOutcome EXCEPT ![c] = OutcomeAfterEnsure(k, Resolved)]
    /\ reply' = NoReplies
    /\ posted' = [KeptPosted EXCEPT ![c] = PostedAfterEnsure(k, Resolved)]
    /\ healthyBasis' = [KeptBasis EXCEPT ![c] = TRUE]
    /\ startingServer' = c
    /\ UNCHANGED <<containerId, docker, awaiting, opVars, containers, shVars, sessVars, pluginVars, otherVars>>

\* The caller's own health probe answers healthy: ensureServerRunning returns
\* and the method (k) goes on.
ProbeHealthy(c, k) ==
    /\ pc[c] = "probe"
    /\ pc' = [pc EXCEPT ![c] = PcAfterEnsure(k, Resolved)]
    /\ outcome' = [KeptOutcome EXCEPT ![c] = OutcomeAfterEnsure(k, Resolved)]
    /\ reply' = NoReplies
    /\ posted' = [KeptPosted EXCEPT ![c] = PostedAfterEnsure(k, Resolved)]
    /\ healthyBasis' = [KeptBasis EXCEPT ![c] = TRUE]
    /\ UNCHANGED <<provVars, awaiting, opVars, containers, shVars, sessVars, pluginVars, otherVars>>

\* The caller's own health probe answers unhealthy (or fails, or times out):
\* _doStartServer() is called and runs into the first await of
\* startContainer(); its promise, with the guard-clearing finally chained,
\* becomes the guard, and the caller awaits it.
ProbeUnhealthyBody(c) ==
    /\ pc[c] = "probe"
    /\ opPc' = [opPc EXCEPT ![c] = FirstStartStep(docker)]
    /\ elapsed' = [elapsed EXCEPT ![c] = 0]
    /\ opContainer' = [opContainer EXCEPT ![c] = NoContainer]
    /\ startingServer' = c
    /\ pc' = [pc EXCEPT ![c] = "await"]
    /\ awaiting' = [awaiting EXCEPT ![c] = c]
    /\ NoCallStep
    /\ UNCHANGED <<containerId, docker, containers, shVars, sessVars, pluginVars, handlerVars, langVars>>

ProbeUnhealthy(c) == ProbeUnhealthyBody(c) /\ UNCHANGED torn

\* ------------------------------------------- _doStartServer / startContainer
\* Variant: no finally callback, the guard keeps the settled promise.
GuardKeptAfterSettle(g, o) == g

\* The value the finally callback of the guard promise writes to the guard.
GuardAfterSettle(g, o) == NoOp

\* Suspended on the promise of start operation o.
Awaits(c, o) == pc[c] = "await" /\ awaiting[c] = o

\* The promise of start operation o settles with result r (healthy: the probe
\* that let it resolve answered healthy).  The finally callback writes the
\* guard, and every caller suspended on the promise goes on with r in its
\* method ks[c].
Settle(o, r, healthy, ks) ==
    /\ opPc' = [opPc EXCEPT ![o] = "none"]
    /\ elapsed' = [elapsed EXCEPT ![o] = 0]
    /\ opContainer' = [opContainer EXCEPT ![o] = NoContainer]
    /\ startingServer' = GuardAfterSettle(startingServer, o)
    /\ pc' = [c \in Callers |-> IF Awaits(c, o) THEN PcAfterEnsure(ks[c], r) ELSE pc[c]]
    /\ awaiting' = [c \in Callers |-> IF Awaits(c, o) THEN NoOp ELSE awaiting[c]]
    /\ outcome' = [c \in Callers |->
                     IF Awaits(c, o) THEN OutcomeAfterEnsure(ks[c], r) ELSE KeptOutcome[c]]
    /\ reply' = NoReplies
    /\ posted' = [c \in Callers |->
                     IF Awaits(c, o) THEN PostedAfterEnsure(ks[c], r) ELSE KeptPosted[c]]
    /\ healthyBasis' = [c \in Callers |-> IF Awaits(c, o) THEN healthy ELSE KeptBasis[c]]

\* The methods the callers resumed by the settling promise of o are in.
MethodsOf(o) == [{c \in Callers : Awaits(c, o)} -> Kinds]

\* `await import("dockerode")` resolves: the client is created, the pull is issued.
OpImportDone(o) ==
    /\ opPc[o] = "import"
    /\ docker' = TRUE
    /\ opPc' = [opPc EXCEPT ![o] = "pull"]
    /\ NoCallStep
    /\ UNCHANGED <<startingServer, containerId, callVars, elapsed, opContainer, containers,
                   shVars, sessVars, pluginVars, otherVars>>

\* Variant: no try/catch around the pull.
AfterPullFatal(pullOk) == IF pullOk THEN "create" ELSE "none"

\* What startContainer does with the settled pull: a rejection is caught and
\* ignored, createContainer is issued either way.
AfterPull(pullOk) == "create"

\* pullImage() settles.
OpPullDone(o, pullOk) ==
    /\ opPc[o] = "pull"
    /\ opPc' = [opPc EXCEPT ![o] = AfterPull(pullOk)]
    /\ NoCallStep
    /\ UNCHANGED <<provVars, callVars, elapsed, opContainer, containers, shVars, sessVars, pluginVars, otherVars>>

\* The id the runtime gives a new container: one no existing container has.
FreshId(k) == containers[k] = "absent" /\ \A j \in ContainerIds : j < k => containers[j] # "absent"

\* createContainer resolves with a new container; container.start() is issued.
OpCreateOk(o, k) ==
    /\ opPc[o] = "create"
    /\ FreshId(k)
    /\ containers' = [containers EXCEPT ![k] = "created"]
    /\ opContainer' = [opContainer EXCEPT ![o] = k]
    /\ opPc' = [opPc EXCEPT ![o] = "start"]
    /\ NoCallStep
    /\ UNCHANGED <<provVars, callVars, elapsed, shVars, sessVars, pluginVars, otherVars>>

\* createContainer rejects: startContainer, and so _doStartServer, rejects.
OpCreateFail(o, ks) ==
    /\ opPc[o] = "create"
    /\ Settle(o, Failure("DockerError"), FALSE, ks)
    /\ UNCHANGED <<containerId, docker, containers, shVars, sessVars, pluginVars, otherVars>>

\* container.start() resolves: containerId is recorded, startTime is taken and
\* the first health probe of the poll loop is issued (0 < maxWait).
OpStartOk(o) ==
    /\ opPc[o] = "start"
    /\ containers' = [containers EXCEPT ![opContainer[o]] = "running"]
    /\ containerId' = opContainer[o]
    /\ elapsed' = [elapsed EXCEPT ![o] = 0]
    /\ opPc' = [opPc EXCEPT ![o] = "probe"]
    /\ NoCallStep
    /\ UNCHANGED <<startingServer, docker, callVars, opContainer, shVars, sessVars, pluginVars, otherVars>>

\* container.start() rejects: startContainer rejects before containerId is set.
OpStartFail(o, ks) ==
    /\ opPc[o] = "start"
    /\ Settle(o, Failure("DockerError"), FALSE, ks)
    /\ UNCHANGED <<containerId, docker, containers, shVars, sessVars, pluginVars, otherVars>>

\* A probe of the poll loop answers healthy: _doStartServer returns.
OpProbeHealthy(o, ks) ==
    /\ opPc[o] = "probe"
    /\ Settle(o, Resolved, TRUE, ks)
    /\ UNCHANGED <<containerId, docker, containers, shVars, sessVars, pluginVars, otherVars>>

\* A probe of the poll loop answers unhealthy: the loop sleeps for 1 second.
OpProbeUnhealthy(o) ==
    /\ opPc[o] = "probe"
    /\ opPc' = [opPc EXCEPT ![o] = "sleep"]
    /\ NoCallStep
    /\ UNCHANGED <<provVars, callVars, elapsed, opContainer, containers, shVars, sessVars, pluginVars, otherVars>>

\* `while (Date.now() - startTime < maxWait)`
LoopContinues(e) == e < maxWait

\* Variant: the poll loop falls through and _doStartServer returns normally.
CeilingReturns == Resolved

\* What _doStartServer does when the loop condition fails: it throws.
CeilingResult == Failure("ServerStartTimeout")

\* The sleep ends with the clock advanced.  Inside the ceiling the next probe
\* is issued; past it _doStartServer throws the start-timeout error.
OpWake(o, ks) ==
    /\ opPc[o] = "sleep"
    /\ IF LoopContinues(elapsed[o] + Quantum)
         THEN /\ elapsed' = [elapsed EXCEPT ![o] = elapsed[o] + Quantum]
              /\ opPc' = [opPc EXCEPT ![o] = "probe"]
              /\ NoCallStep
              /\ UNCHANGED <<startingServer, callVars, opContainer>>
         ELSE Settle(o, CeilingResult, FALSE, ks)
    /\ UNCHANGED <<containerId, docker, containers, shVars, sessVars, pluginVars, otherVars>>

\* The POST of transcribe settles.
PostDone(c, resp) ==
    /\ pc[c] = "post"
    /\ outcome' = [KeptOutcome EXCEPT ![c] = ParseResponse(resp)]
    /\ reply' = [NoReplies EXCEPT ![c] = resp]
    /\ healthyBasis' = KeptBasis
    /\ posted' = KeptPosted
    /\ pc' = [pc EXCEPT ![c] = "idle"]
    /\ UNCHANGED <<provVars, awaiting, opVars, containers, shVars, sessVars, pluginVars, otherVars>>

\* ------------------------------------------------------------------ shutdown
\* The start operations that have not settled.
InFlight == {o \in Ops : opPc[o] # "none"}

\* `if (this.containerId && this.docker)`
OwnsContainer(id, d) == id # NoContainer /\ d

\* Variant: shutdown() leaves containerId as it is.
HandleNeverCleared(id, failed) == id

\* Variant: containerId is cleared inside the try block, after remove().
HandleKeptOnFailure(id, failed) == IF failed THEN id ELSE NoContainer

\* `this.containerId = undefined`, after the try/catch: what shutdown() leaves
\* in containerId (id), whether or not stop or remove failed.
HandleAfterShutdown(id, failed) == NoContainer

\* shutdown() is called.  With a container owned, container.stop() is issued;
\* otherwise the call only clears containerId and returns.
ShutdownCallBody ==
    /\ shPc = "idle"
    /\ IF OwnsContainer(containerId, docker)
         THEN /\ shTarget' = containerId
              /\ shPc' = "stop"
              /\ UNCHANGED containerId
         ELSE /\ containerId' = HandleAfterShutdown(containerId, FALSE)
              /\ UNCHANGED shVars
    /\ NoCallStep
    /\ UNCHANGED <<startingServer, docker, callVars, opVars, containers, sessVars, pluginVars, handlerVars, langVars>>

ShutdownCall == ShutdownCallBody /\ UNCHANGED torn

\* container.stop() resolves (the container, created with AutoRemove, is gone
\* once stopped); container.remove() is issued.
StopOk ==
    /\ shPc = "stop"
    /\ containers[shTarget] = "running"
    /\ containers' = [containers EXCEPT ![shTarget] = "absent"]
    /\ shPc' = "remove"
    /\ NoCallStep
    /\ UNCHANGED <<provVars, callVars, opVars, shTarget, sessVars, pluginVars, otherVars>>

\* container.stop() rejects: the catch swallows it and containerId is cleared.
StopFailBody ==
    /\ shPc = "stop"
    /\ containerId' = HandleAfterShutdown(containerId, TRUE)
    /\ shPc' = "idle"
    /\ shTarget' = NoContainer
    /\ NoCallStep
    /\ UNCHANGED <<startingServer, docker, callVars, opVars, containers, sessVars, pluginVars, handlerVars, langVars>>

StopFail == StopFailBody /\ UNCHANGED torn

\* container.remove() settles, either way; containerId is cleared.
RemoveDoneBody(removeOk) ==
    /\ shPc = "remove"
    /\ containerId' = HandleAfterShutdown(containerId, ~removeOk)
    /\ shPc' = "idle"
    /\ shTarget' = NoContainer
    /\ NoCallStep
    /\ UNCHANGED <<startingServer, docker, callVars, opVars, containers, sessVars, pluginVars, handlerVars, langVars>>

RemoveDone(removeOk) == RemoveDoneBody(removeOk) /\ UNCHANGED torn

\* ------------------------------------------------------- WhisperLocalSession
Returned(m, r) == [method |-> m, result |-> r]
NoCall == Returned("none", None)

\* A session as createSession hands it out.
SessionInit ==
    /\ chunks = <<>>
    /\ ended = FALSE
    /\ wPc = "idle"
    /\ wElapsed = 0
    /\ wTimeout = 0
    /\ wPayload = <<>>
    /\ wReturn = None
    /\ wReply = NoReply
    /\ lastCall = NoCall
    /\ closed = FALSE
    /\ timedOut = FALSE
    /\ sent = <<>>

\* Buffer.concat(this.chunks)
RECURSIVE Concat(_)
Concat(cs) == IF cs = <<>> THEN <<>> ELSE Head(cs) \o Concat(Tail(cs))

\* Variant: sendAudio without the `ended` check.
RejectsNever(e) == FALSE

\* `if (this.ended) throw` in sendAudio.
Rejects(e) == e

\* Variant: the chunk is put in front of the buffer.
PushedFront(cs, a) == <<a>> \o cs

\* `this.chunks.push(audio)`
Pushed(cs, a) == Append(cs, a)

\* sendAudio(a)
SendAudio(a) ==
    /\ IF Rejects(ended)
         THEN /\ lastCall' = Returned("sendAudio", Failure("SessionClosed"))
              /\ UNCHANGED <<chunks, sent>>
         ELSE /\ Len(chunks) < MaxChunks
              /\ chunks' = Pushed(chunks, a)
              /\ sent' = Append(sent, a)
              /\ lastCall' = Returned("sendAudio", Resolved)
    /\ wReturn' = None
    /\ wReply' = NoReply
    /\ UNCHANGED <<lifecycleVars, pluginVars, otherVars, ended, wPc, wElapsed, wTimeout, wPayload, closed, timedOut>>

\* endAudio()
EndAudio ==
    /\ ended' = TRUE
    /\ lastCall' = Returned("endAudio", Resolved)
    /\ wReturn' = None
    /\ wReply' = NoReply
    /\ UNCHANGED <<lifecycleVars, pluginVars, otherVars, sent, chunks, wPc, wElapsed, wTimeout, wPayload, closed, timedOut>>

\* Variant: close() keeps the buffer.
ChunksKeptByClose(cs) == cs

\* `this.chunks = []` in close().
ChunksAfterClose(cs) == <<>>

\* close()
Close ==
    /\ ended' = TRUE
    /\ chunks' = ChunksAfterClose(chunks)
    /\ closed' = TRUE
    /\ lastCall' = Returned("close", Resolved)
    /\ wReturn' = None
    /\ wReply' = NoReply
    /\ UNCHANGED <<lifecycleVars, pluginVars, otherVars, sent, wPc, wElapsed, wTimeout, wPayload, timedOut>>

\* `while (!this.ended && Date.now() - startTime < timeoutMs)`
WaitContinues(e, t, limit) == ~e /\ t < limit

\* Variant: the loop's exit is not followed by the `ended` check.
ThrowsNever(e) == FALSE

\* `if (!this.ended) throw` after the loop.
ThrowsTimeout(e) == ~e

\* waitForTranscript from a test of the loop condition at time t on: another
\* sleep, the transcript-timeout error, or the POST of the concatenated buffer.
WaitFrom(t, limit) ==
    IF WaitContinues(ended, t, limit)
      THEN /\ wPc' = "sleep"
           /\ wElapsed' = t
           /\ wTimeout' = limit
           /\ wReturn' = None
           /\ wReply' = NoReply
           /\ UNCHANGED <<wPayload, timedOut>>
    ELSE IF ThrowsTimeout(ended)
      THEN /\ wPc' = "idle"
           /\ wElapsed' = 0
           /\ wTimeout' = 0
           /\ wReturn' = Failure("TranscriptTimeout")
           /\ wReply' = NoReply
           /\ timedOut' = TRUE
           /\ UNCHANGED wPayload
      ELSE /\ wPc' = "post"
           /\ wElapsed' = 0
           /\ wTimeout' = 0
           /\ wPayload' = Concat(chunks)
           /\ wReturn' = None
           /\ wReply' = NoReply
           /\ UNCHANGED timedOut

\* waitForTranscript(timeoutMs) is called.
WaitCall(timeoutMs) ==
    /\ wPc = "idle"
    /\ WaitFrom(0, timeoutMs)
    /\ lastCall' = NoCall
    /\ UNCHANGED <<lifecycleVars, pluginVars, otherVars, sent, chunks, ended, closed>>

\* The 100 ms sleep of the wait loop ends with the clock advanced.
WaitWake ==
    /\ wPc = "sleep"
    /\ WaitFrom(wElapsed + SessionQuantum, wTimeout)
    /\ lastCall' = NoCall
    /\ UNCHANGED <<lifecycleVars, pluginVars, otherVars, sent, chunks, ended, closed>>

\* Variant: the buffer is emptied once it has been posted.
ChunksDrained(cs) == <<>>

\* `Buffer.concat(this.chunks)` copies: what a waitForTranscript call that
\* posted leaves of the buffer (cs).
ChunksAfterWait(cs) == cs

\* The POST of waitForTranscript settles.
WaitPostDone(resp) ==
    /\ wPc = "post"
    /\ wPc' = "idle"
    /\ wPayload' = <<>>
    /\ wReturn' = ParseResponse(resp)
    /\ wReply' = resp
    /\ lastCall' = NoCall
    /\ chunks' = ChunksAfterWait(chunks)
    /\ UNCHANGED <<lifecycleVars, pluginVars, otherVars, sent, ended, wElapsed, wTimeout, closed, timedOut>>

\* ------------------------------------------------- configuration (types.ts)
\* A field of the caller's configuration object: <<>> when the object does not
\* carry it, <<v>> when it carries the value v.
Absent == <<>>
Given(v) == <<v>>

VALID_MODELS == {"tiny", "base", "small", "medium", "large-v3"}
DEFAULT_CONFIG == [model |-> "small", port |-> 8765, language |-> "en"]
MinPort == 1024
MaxPort == 65535

\* The configuration objects the host hands out: the model and the port, each
\* given or left out.
HostModels == {Absent} \cup {Given(m) : m \in {"large-v3", "invalid-model"}}
HostPorts == {Absent} \cup {Given(n) : n \in {MinPort - 1, MinPort, MaxPort, MaxPort + 1}}
HostConfigs == [model : HostModels, port : HostPorts]

\* `{ ...DEFAULT_CONFIG, ...config }`: the constructor of WhisperLocalProvider.
Merged(config) ==
    [model |-> IF config.model = Absent THEN DEFAULT_CONFIG.model ELSE config.model[1],
     port  |-> IF config.port = Absent THEN DEFAULT_CONFIG.port ELSE config.port[1]]

\* Variant: the model list is not consulted.
ModelAccepted(m) == TRUE

\* `VALID_MODELS.includes(this.config.model)`
ModelValid(m) == m \in VALID_MODELS

\* Variant: the lower bound is lost.
PortBelowMax(p) == p <= MaxPort

\* `!(this.config.port < 1024 || this.config.port > 65535)`
PortValid(p) == ~(p < MinPort \/ p > MaxPort)

\* validateConfig() of a provider with configuration cfg: the model is looked
\* at first, then the port.
ValidateConfig(cfg) ==
    IF ~ModelValid(cfg.model) THEN Failure("InvalidModel")
    ELSE IF ~PortValid(cfg.port) THEN Failure("InvalidPort")
    ELSE Resolved

\* --------------------------------------------------------- plugin (index.ts)
\* init() calls whose cleanups can be registered at the same time.
MaxInits == 2

\* The host contexts init() is called with.
Contexts == {1, 2}
NoContext == 0

NoInit == [tag |-> "none"]
InitRecord(c, cfg, r, reg) ==
    [tag |-> "init", context |-> c, config |-> cfg, result |-> r, registered |-> reg]

\* The two closures init() pushes.
Unregister == "unregisterConfigSchema"
ProviderShutdown == "provider.shutdown"

\* How a cleanup can end: it returns (a value or a promise that resolves), it
\* throws while it is called, or it returns a promise that rejects.
\* provider.shutdown() is an async function that catches every error of its
\* body; the host's unregisterConfigSchema can end in each way.
CleanupEnds(kind) ==
    IF kind = ProviderShutdown THEN {"returns"} ELSE {"returns", "throws", "rejects"}

PluginInit ==
    /\ ctx = NoContext
    /\ cleanups = <<>>
    /\ schemas = [c \in Contexts |-> FALSE]
    /\ sttProviders = [c \in Contexts |-> FALSE]
    /\ plPc = "idle"
    /\ plIndex = 0
    /\ ran = <<>>
    /\ plSnapshot = <<>>
    /\ lastInit = NoInit
    /\ regOn = {}
    /\ unregOn = {}

\* The record of a shutdown() that returned before this step is dropped.
KeptRan == IF plPc = "idle" THEN <<>> ELSE ran
KeptSnapshot == IF plPc = "idle" THEN <<>> ELSE plSnapshot
KeptUnreg == IF plPc = "idle" THEN {} ELSE unregOn

\* Variant: the provider is registered before it is validated.
RegistersAlways(r) == TRUE

\* init() reaches registerSTTProvider only when validateConfig() returned.
Registers(r) == r = Resolved

\* init(context): no await, the whole body is one step.  The context is saved,
\* the schema registered and its cleanup pushed; the provider is built from
\* the host's configuration and validated; a valid one is registered and its
\* shutdown pushed.
PluginInitCall(c, config) ==
    LET r == ValidateConfig(Merged(config))
    IN /\ Len(cleanups) + 2 <= 2 * MaxInits
       /\ ctx' = c
       /\ schemas' = [schemas EXCEPT ![c] = TRUE]
       /\ sttProviders' = [sttProviders EXCEPT ![c] = sttProviders[c] \/ Registers(r)]
       /\ cleanups' = IF Registers(r) THEN cleanups \o <<Unregister, ProviderShutdown>>
                      ELSE Append(cleanups, Unregister)
       /\ lastInit' = InitRecord(c, Merged(config), r, Registers(r))
       /\ ran' = KeptRan
       /\ plSnapshot' = KeptSnapshot
       /\ regOn' = regOn \cup {c}
       /\ unregOn' = KeptUnreg
       /\ UNCHANGED <<plPc, plIndex, lifecycleVars, sessVars, otherVars>>

\* The outcomes the registered cleanups can have when they are invoked.
EndsOf(cs) == {e \in [1..Len(cs) -> {"returns", "throws", "rejects"}] :
                 \A j \in 1..Len(cs) : e[j] \in CleanupEnds(cs[j])}

\* `for (let i = cleanups.length - 1; ...)`: the loop starts at the closure
\* registered last (indices count from 1 here).
FirstIndex(cs) == Len(cs)

\* Variant: an error of a cleanup ends the loop.
AfterThrowAborts(i) == 0

\* `catch {}` and `i--`: after a cleanup that threw, the loop goes on below it.
AfterThrow(i) == i - 1

\* The loop from index i on, up to its next suspension: a cleanup that throws
\* while it is called is caught and the loop goes on at once; any other is
\* awaited.  Invoked: the closures called on the way; Suspended: the index of
\* the awaited one, 0 when the loop has run out.
RECURSIVE Invoked(_, _, _)
Invoked(cs, i, ends) ==
    IF i = 0 THEN <<>>
    ELSE IF ends[i] = "throws" THEN <<(<<i, cs[i]>>)>> \o Invoked(cs, AfterThrow(i), ends)
    ELSE <<(<<i, cs[i]>>)>>

RECURSIVE Suspended(_, _)
Suspended(i, ends) ==
    IF i = 0 THEN 0
    ELSE IF ends[i] = "throws" THEN Suspended(AfterThrow(i), ends)
    ELSE i

\* `ctx?.unregisterConfigSchema(...)` that returns: the schema is unregistered
\* on the context `ctx` holds when the closure runs.
SchemasAfter(kind, end) ==
    IF kind = Unregister /\ end = "returns" /\ ctx # NoContext
      THEN [schemas EXCEPT ![ctx] = FALSE]
      ELSE schemas

\* The contexts the invoked closures (inv) call unregisterConfigSchema on: the
\* closure reads `ctx` when it runs, and `?.` skips the call on null.
CalledOn(inv) ==
    IF \E k \in 1..Len(inv) : inv[k][2] = Unregister THEN {ctx} \ {NoContext} ELSE {}

\* Variant: shutdown() leaves the cleanup list as it is.
CleanupsKept(cs) == cs

\* `cleanups.length = 0`: what shutdown() leaves of the cleanup list (cs).
CleanupsAfterShutdown(cs) == <<>>

\* The loop of shutdown() run from index i with the cleanups ending as `ends`
\* says: it is suspended in the next awaited cleanup, or it has run out and
\* `cleanups.length = 0; ctx = null` ends the call.
ShutdownFrom(i, ends) ==
    LET s == Suspended(i, ends)
    IN IF s = 0
         THEN /\ cleanups' = CleanupsAfterShutdown(cleanups)
              /\ ctx' = NoContext
              /\ plPc' = "idle"
              /\ plIndex' = 0
              /\ regOn' = {}
              /\ UNCHANGED schemas
         ELSE /\ plPc' = "await"
              /\ plIndex' = s
              /\ schemas' = SchemasAfter(cleanups[s], ends[s])
              /\ UNCHANGED <<cleanups, ctx, regOn>>

\* shutdown() of the plugin is called.
PluginShutdownCall(ends) ==
    /\ plPc = "idle"
    /\ plSnapshot' = cleanups
    /\ ran' = Invoked(cleanups, FirstIndex(cleanups), ends)
    /\ unregOn' = CalledOn(Invoked(cleanups, FirstIndex(cleanups), ends))
    /\ ShutdownFrom(FirstIndex(cleanups), ends)
    /\ lastInit' = NoInit
    /\ UNCHANGED <<sttProviders, lifecycleVars, sessVars, otherVars>>

\* The awaited cleanup settles (a rejection is caught): `i--`, the loop goes on.
PluginCleanupSettled(ends) ==
    /\ plPc = "await"
    /\ ran' = ran \o Invoked(cleanups, plIndex - 1, ends)
    /\ unregOn' = unregOn \cup CalledOn(Invoked(cleanups, plIndex - 1, ends))
    /\ ShutdownFrom(plIndex - 1, ends)
    /\ lastInit' = NoInit
    /\ UNCHANGED <<plSnapshot, sttProviders, lifecycleVars, sessVars, otherVars>>

\* ------------------------------------------ shutdown() against a running start
\* The steps of shutdown() and of a new start, with the record of the start
\* operations that were in flight when shutdown() returned.
TornAfter(returned) == IF returned THEN InFlight ELSE torn

TrackedProbeUnhealthy(c) == ProbeUnhealthyBody(c) /\ torn' = {}

TrackedShutdownCall == ShutdownCallBody /\ torn' = TornAfter(~OwnsContainer(containerId, docker))

TrackedStopFail == StopFailBody /\ torn' = TornAfter(TRUE)

TrackedRemoveDone(removeOk) == RemoveDoneBody(removeOk) /\ torn' = TornAfter(TRUE)

\* ------------------------------ the single-file plugin and its WebMCP handlers
\* WHISPER_MODELS, each entry by its id.
WHISPER_MODELS == <<"tiny", "base", "small", "medium", "large-v3">>

\* The configurations the host hands to init() here: every model name, known
\* or not, or none.
ModuleConfigs ==
    {[model |-> m, port |-> Absent] :
        m \in {Absent} \cup {Given(x) : x \in VALID_MODELS \cup {"invalid-model"}}}

\* What a handler call settles with.
Answer(t, e, ms, cm, h) ==
    [tool |-> t, error |-> e, models |-> ms, currentModel |-> cm, healthy |-> h]
NoAnswer == Answer("none", "", <<>>, "", FALSE)
NotInitialized(t) == Answer(t, "whisper-local provider not initialized", <<>>, "", FALSE)

HandlerInit ==
    /\ provider = Absent
    /\ configured = Absent
    /\ modPc = "idle"
    /\ hPc = "idle"
    /\ hReply = NoAnswer

\* `get model()` of the provider p.
Model(p) == p.model

\* Variant: the current model is left out of the list.
ModelsWithoutCurrent(currentModel) == SelectSeq(WHISPER_MODELS, LAMBDA m : m # currentModel)

\* `models: WHISPER_MODELS`: the list the handler reports.
ModelsListed(currentModel) == WHISPER_MODELS

\* The listModels handler of getWebMCPHandlers(provider, currentModel).
ListModels(currentModel) ==
    Answer("listModels", "", ModelsListed(currentModel), currentModel, FALSE)

\* The getStatus handler of getWebMCPHandlers, once healthCheck() has answered h.
GetStatus(h) == Answer("getStatus", "", <<>>, "", h)

\* init(ctx) of the single-file plugin: the provider is built from the host's
\* configuration and kept, whether or not validateConfig() accepts it (the
\* error is logged); a valid one is registered as the "stt" extension.
ModuleInit(c, config) ==
    /\ provider' = Given(Merged(config))
    /\ configured' = Given(config)
    /\ sttProviders' = [sttProviders EXCEPT
                          ![c] = sttProviders[c] \/ ValidateConfig(Merged(config)) = Resolved]
    /\ hReply' = NoAnswer
    /\ UNCHANGED <<modPc, hPc, torn, langVars, lifecycleVars, sessVars,
                   ctx, cleanups, schemas, plPc, plIndex, ran, plSnapshot, lastInit, regOn, unregOn>>

\* shutdown() of the single-file plugin is called: with a provider, its
\* shutdown() is awaited (this provider was never asked to start its server:
\* it owns no container and its shutdown() returns at once).
ModuleShutdownCall ==
    /\ modPc = "idle"
    /\ modPc' = IF provider # Absent THEN "shutdown" ELSE modPc
    /\ hReply' = NoAnswer
    /\ UNCHANGED <<provider, configured, hPc, torn, langVars, lifecycleVars, sessVars, pluginVars>>

\* provider.shutdown() has settled: `provider = null`.
ModuleShutdownDone ==
    /\ modPc = "shutdown"
    /\ modPc' = "idle"
    /\ provider' = Absent
    /\ configured' = Absent
    /\ hReply' = NoAnswer
    /\ UNCHANGED <<hPc, torn, langVars, lifecycleVars, sessVars, pluginVars>>

\* The listModels handler the plugin hands out: it reads `provider` when it is
\* called, and has no await.
HandleListModels ==
    /\ hReply' = IF provider = Absent THEN NotInitialized("listModels")
                 ELSE ListModels(Model(provider[1]))
    /\ UNCHANGED <<provider, configured, modPc, hPc, torn, langVars, lifecycleVars, sessVars,
                   pluginVars>>

\* The getStatus handler the plugin hands out is called: without a provider it
\* fails, otherwise it awaits provider.healthCheck().
HandleGetStatus ==
    /\ hPc = "idle"
    /\ IF provider = Absent
         THEN hReply' = NotInitialized("getStatus") /\ UNCHANGED hPc
         ELSE hReply' = NoAnswer /\ hPc' = "health"
    /\ UNCHANGED <<provider, configured, modPc, torn, langVars, lifecycleVars, sessVars, pluginVars>>

\* healthCheck() answers (h) and getStatus returns.
HandleHealthDone(h) ==
    /\ hPc = "health"
    /\ hPc' = "idle"
    /\ hReply' = GetStatus(h)
    /\ UNCHANGED <<provider, configured, modPc, torn, langVars, lifecycleVars, sessVars, pluginVars>>

\* ------------------------------------------ the language of a transcription
Languages == {"en", "de", "fr"}

\* The options argument of createSession / transcribe: left out, or an object
\* without a `language` key, or with one whose value is undefined (Absent) or
\* a language.
Options(g, k, l) == [given |-> g, hasLanguage |-> k, language |-> l]
NoOptions == Options(FALSE, FALSE, Absent)
OptionsArgs ==
    {NoOptions, Options(TRUE, FALSE, Absent)}
        \cup {Options(TRUE, TRUE, l) : l \in {Absent} \cup {Given(x) : x \in Languages}}

\* A transcription request, by who sent it, the options the caller gave and
\* the `language` field of the form.
Post(by, asked, l) == [by |-> by, asked |-> asked, language |-> l]
NoPost == Post("none", NoOptions, "")

\* The provider as its constructor leaves it, here with DEFAULT_CONFIG.
LanguageInit ==
    /\ language = DEFAULT_CONFIG.language
    /\ sessOptions = Absent
    /\ sessAsked = NoOptions
    /\ lastPost = NoPost

\* `v ?? d`
Coalesce(v, d) == IF v = Absent THEN d ELSE v[1]

\* transcribe: `options?.language ?? this.config.language`
TranscribeLanguage(options, configLanguage) == Coalesce(options.language, configLanguage)

\* createSession: `{ language: this.config.language, ...options }`; a key of
\* `options` replaces the default even when its value is undefined.
SessionOptions(options, configLanguage) ==
    [language |-> IF options.hasLanguage THEN options.language ELSE Given(configLanguage)]

\* waitForTranscript: `this.options.language ?? "en"`
SessionLanguage(options) == Coalesce(options.language, "en")

\* transcribe(audio, options) with the server healthy, up to its POST.
TranscribePost(options) ==
    /\ lastPost' = Post("transcribe", options, TranscribeLanguage(options, language))
    /\ UNCHANGED <<language, sessOptions, sessAsked, torn, handlerVars, lifecycleVars, sessVars,
                   pluginVars>>

\* createSession(options) with the server healthy.
CreateSession(options) ==
    /\ sessOptions' = Given(SessionOptions(options, language))
    /\ sessAsked' = options
    /\ lastPost' = NoPost
    /\ UNCHANGED <<language, torn, handlerVars, lifecycleVars, sessVars, pluginVars>>

\* waitForTranscript of the session, up to its POST.
SessionPost ==
    /\ sessOptions # Absent
    /\ lastPost' = Post("session", sessAsked, SessionLanguage(sessOptions[1]))
    /\ UNCHANGED <<language, sessOptions, sessAsked, torn, handlerVars, lifecycleVars, sessVars,
                   pluginVars>>

\* ------------------------------------------------------------ specification
Init ==
    /\ LifecycleInit /\ SessionInit /\ PluginInit
    /\ torn = {}
    /\ HandlerInit
    /\ LanguageInit

Next ==
    \/ \E c \in Callers : Call(c)
    \/ \E c \in Callers, k \in Kinds : ProbeHealthy(c, k)
    \/ \E c \in Callers : ProbeUnhealthy(c)
    \/ \E o \in Ops : OpImportDone(o)
    \/ \E o \in Ops, pullOk \in BOOLEAN : OpPullDone(o, pullOk)
    \/ \E o \in Ops, k \in ContainerIds : OpCreateOk(o, k)
    \/ \E o \in Ops : \E ks \in MethodsOf(o) : OpCreateFail(o, ks)
    \/ \E o \in Ops : OpStartOk(o)
    \/ \E o \in Ops : \E ks \in MethodsOf(o) : OpStartFail(o, ks)
    \/ \E o \in Ops : \E ks \in MethodsOf(o) : OpProbeHealthy(o, ks)
    \/ \E o \in Ops : OpProbeUnhealthy(o)
    \/ \E o \in Ops : \E ks \in MethodsOf(o) : OpWake(o, ks)
    \/ \E c \in Callers, resp \in Responses : PostDone(c, resp)
    \/ ShutdownCall
    \/ StopOk
    \/ StopFail
    \/ \E removeOk \in BOOLEAN : RemoveDone(removeOk)

Spec == Init /\ [][Next]_vars

\* One session in the hands of its callers.
SessionNext ==
    \/ \E a \in Audio : SendAudio(a)
    \/ EndAudio
    \/ Close
    \/ \E t \in Timeouts : WaitCall(t)
    \/ WaitWake
    \/ \E resp \in Responses : WaitPostDone(resp)

SessionSpec == Init /\ [][SessionNext]_vars

\* Transcription requests alone: the server is up, callers transcribe and a
\* session is ended and waited on, with every response the endpoint can give.
ReplyNext ==
    \/ \E c \in Callers : Call(c)
    \/ \E c \in Callers, k \in Kinds : ProbeHealthy(c, k)
    \/ \E c \in Callers, resp \in ReplyResponses : PostDone(c, resp)
    \/ EndAudio
    \/ \E t \in Timeouts : WaitCall(t)
    \/ WaitWake
    \/ \E resp \in ReplyResponses : WaitPostDone(resp)

ReplySpec == Init /\ [][ReplyNext]_vars

\* The plugin module in the hands of its host.
PluginNext ==
    \/ \E c \in Contexts, config \in HostConfigs : PluginInitCall(c, config)
    \/ \E ends \in EndsOf(cleanups) : PluginShutdownCall(ends)
    \/ \E ends \in EndsOf(cleanups) : PluginCleanupSettled(ends)

PluginSpec == Init /\ [][PluginNext]_vars

\* One caller, its start operations and shutdown(), with the record of the
\* operations a shutdown() has overtaken.
FirstCaller == {c \in Callers : \A d \in Callers : c <= d}

TeardownNext ==
    \/ \E c \in FirstCaller : Call(c)
    \/ \E c \in FirstCaller, k \in Kinds : ProbeHealthy(c, k)
    \/ \E c \in FirstCaller : TrackedProbeUnhealthy(c)
    \/ \E o \in FirstCaller : OpImportDone(o)
    \/ \E o \in FirstCaller, pullOk \in BOOLEAN : OpPullDone(o, pullOk)
    \/ \E o \in FirstCaller, k \in ContainerIds : OpCreateOk(o, k)
    \/ \E o \in FirstCaller : \E ks \in MethodsOf(o) : OpCreateFail(o, ks)
    \/ \E o \in FirstCaller : OpStartOk(o)
    \/ \E o \in FirstCaller : \E ks \in MethodsOf(o) : OpStartFail(o, ks)
    \/ \E o \in FirstCaller : \E ks \in MethodsOf(o) : OpProbeHealthy(o, ks)
    \/ \E o \in FirstCaller : OpProbeUnhealthy(o)
    \/ \E o \in FirstCaller : \E ks \in MethodsOf(o) : OpWake(o, ks)
    \/ \E c \in FirstCaller, resp \in Responses : PostDone(c, resp)
    \/ TrackedShutdownCall
    \/ StopOk
    \/ TrackedStopFail
    \/ \E removeOk \in BOOLEAN : TrackedRemoveDone(removeOk)

TeardownSpec == Init /\ [][TeardownNext]_vars

\* Two callers and shutdown(), where every awaited probe, timer, container
\* call and request returns in the end.  Calls are made as the callers please.
TwoCallers == {c \in Callers : \A d \in Callers : c <= d + 1}

CallerReturns(c) ==
    \/ \E k \in Kinds : ProbeHealthy(c, k)
    \/ ProbeUnhealthy(c)
    \/ \E resp \in Responses : PostDone(c, resp)

OpReturns(o) ==
    \/ OpImportDone(o)
    \/ \E pullOk \in BOOLEAN : OpPullDone(o, pullOk)
    \/ \E k \in ContainerIds : OpCreateOk(o, k)
    \/ \E ks \in MethodsOf(o) : OpCreateFail(o, ks)
    \/ OpStartOk(o)
    \/ \E ks \in MethodsOf(o) : OpStartFail(o, ks)
    \/ \E ks \in MethodsOf(o) : OpProbeHealthy(o, ks)
    \/ OpProbeUnhealthy(o)
    \/ \E ks \in MethodsOf(o) : OpWake(o, ks)

ShutdownReturns ==
    \/ StopOk
    \/ StopFail
    \/ \E removeOk \in BOOLEAN : RemoveDone(removeOk)

FairNext ==
    \/ \E c \in TwoCallers : Call(c)
    \/ \E c \in TwoCallers : CallerReturns(c)
    \/ \E o \in TwoCallers : OpReturns(o)
    \/ ShutdownCall
    \/ ShutdownReturns

FairSpec ==
    /\ Init
    /\ [][FairNext]_vars
    /\ \A c \in TwoCallers : WF_vars(CallerReturns(c))
    /\ \A o \in TwoCallers : WF_vars(OpReturns(o))
    /\ WF_vars(ShutdownReturns)

\* The single-file plugin module and the handlers it hands out.
HandlerNext ==
    \/ \E c \in Contexts, config \in ModuleConfigs : ModuleInit(c, config)
    \/ ModuleShutdownCall
    \/ ModuleShutdownDone
    \/ HandleListModels
    \/ HandleGetStatus
    \/ \E h \in BOOLEAN : HandleHealthDone(h)

HandlerSpec == Init /\ [][HandlerNext]_vars

\* Providers of every configured language, their sessions and requests.
LanguageSpecInit ==
    /\ LifecycleInit /\ SessionInit /\ PluginInit
    /\ torn = {}
    /\ HandlerInit
    /\ language \in Languages
    /\ sessOptions = Absent
    /\ sessAsked = NoOptions
    /\ lastPost = NoPost

LanguageNext ==
    \/ \E options \in OptionsArgs : TranscribePost(options)
    \/ \E options \in OptionsArgs : CreateSession(options)
    \/ SessionPost

LanguageSpec == LanguageSpecInit /\ [][LanguageNext]_vars

\* ------------------------------------------------------------------ claims
StartErrors == {Failure("ServerStartTimeout"), Failure("DockerError")}

\* How the ensureServerRunning of caller c has settled in the next state of a
\* step that resumes c.
EnsureOutcomeNext(c) ==
    IF pc'[c] = "post" \/ outcome'[c] = SessionResult THEN Resolved ELSE outcome'[c]

\* C1: however many createSession / transcribe calls overlap while the server
\* is down, at most one start operation is in flight on the provider.
C1_AtMostOneStartInFlight == Cardinality(InFlight) <= 1

\* C2: a call made while the guard is set awaits the guard's operation, issues
\* no health probe and starts nothing, and when it is resumed its
\* ensureServerRunning has settled as the initiator's has, with the same error
\* on failure.
C2_JoinersShareOutcome ==
    [][\A c \in Callers :
         /\ (pc[c] = "idle" /\ pc'[c] # "idle" /\ startingServer # NoOp)
               => /\ pc'[c] = "await"
                  /\ awaiting'[c] = startingServer
                  /\ opPc' = opPc
                  /\ startingServer' = startingServer
         /\ (pc[c] = "await" /\ awaiting[c] # c)
               => /\ pc'[c] # "probe"
                  /\ opPc'[c] = opPc[c]
                  /\ (pc'[c] # "await"
                        => /\ opPc[awaiting[c]] # "none"
                           /\ opPc'[awaiting[c]] = "none"
                           /\ pc[awaiting[c]] = "await"
                           /\ EnsureOutcomeNext(c) = EnsureOutcomeNext(awaiting[c]))
      ]_vars

C2_Witness ==
    \E c, d \in Callers :
        /\ c # d
        /\ outcome[c] = Failure("ServerStartTimeout")
        /\ outcome[d] = Failure("ServerStartTimeout")

\* C3: when a start operation fails, by the ceiling or by a container error,
\* the guard is null afterwards and the failing step starts no operation; a
\* call made with the guard null probes health, and an unhealthy answer to
\* that probe begins a new start operation that becomes the guard.
C3_FailureClearsGuard ==
    [][/\ \A o \in Ops :
            (opPc[o] # "none" /\ opPc'[o] = "none" /\ outcome'[o] \in StartErrors)
               => /\ startingServer' = NoOp
                  /\ \A p \in Ops : opPc[p] = "none" => opPc'[p] = "none"
       /\ \A c \in Callers :
            /\ (pc[c] = "idle" /\ pc'[c] # "idle" /\ startingServer = NoOp)
                  => pc'[c] = "probe"
            /\ (pc[c] = "probe" /\ pc'[c] = "await")
                  => (opPc'[c] # "none" /\ startingServer' = c /\ awaiting'[c] = c)
      ]_vars

C3_Witness ==
    \E c \in Callers :
        /\ outcome[c] \in StartErrors
        /\ startingServer = NoOp
        /\ InFlight = {}

\* C4: when the poll loop of a start operation runs past the 60 s ceiling with
\* every probe unhealthy, each call awaiting it fails with ServerStartTimeout:
\* it returns without a POST and without a session.
C4_TimeoutPropagates ==
    [][\A o \in Ops :
         (opPc[o] = "sleep" /\ opPc'[o] # "sleep" /\ elapsed[o] + Quantum >= maxWait)
            => \A c \in Callers :
                 (pc[c] = "await" /\ awaiting[c] = o)
                    => /\ outcome'[c] = Failure("ServerStartTimeout")
                       /\ pc'[c] = "idle"
                       /\ ~posted'[c]
      ]_vars

C4_Witness ==
    \E c \in Callers :
        /\ outcome[c] = Failure("ServerStartTimeout")
        /\ pc[c] = "idle"
        /\ ~posted[c]

\* C5: a call issues its transcription POST, or returns a session (the only
\* object waitForTranscript posts through), only after a health probe that
\* answered healthy let its ensureServerRunning pass.
C5_PostNeedsHealthyProbe ==
    \A c \in Callers : (posted[c] \/ outcome[c] = SessionResult) => healthyBasis[c]

C5_Witness == \E c \in Callers : pc[c] = "post" /\ posted[c] /\ healthyBasis[c]

\* C6: a call whose own probe answers healthy passes ensureServerRunning
\* without touching the guard, the container handle, the Docker client, any
\* start operation or any container.
C6_HealthyIsFrameOnly ==
    [][\A c \in Callers :
         (pc[c] = "probe" /\ healthyBasis'[c])
            => /\ startingServer' = startingServer
               /\ containerId' = containerId
               /\ docker' = docker
               /\ opVars' = opVars
               /\ containers' = containers
      ]_vars

C6_Witness ==
    \E c \in Callers :
        /\ outcome[c] = SessionResult
        /\ healthyBasis[c]
        /\ startingServer = NoOp
        /\ containerId = NoContainer
        /\ InFlight = {}

\* C7: sendAudio on an ended session fails with the session-ended error and
\* leaves the buffer as it is; while ended is true no step appends a chunk
\* (the buffer stays, or close empties it), and ended never goes back to false.
C7_NoAudioAfterEnd ==
    [][ended =>
         /\ ended'
         /\ (chunks' = chunks \/ chunks' = <<>>)
         /\ (lastCall'.method = "sendAudio"
               => /\ lastCall'.result = Failure("SessionClosed")
                  /\ chunks' = chunks)
      ]_vars

C7_Witness ==
    /\ ended
    /\ chunks # <<>>
    /\ lastCall = Returned("sendAudio", Failure("SessionClosed"))

\* C8: a waitForTranscript call that leaves its wait loop with the session not
\* ended fails with the transcript timeout; the failing step issues no POST
\* and changes neither the buffer nor ended.  After a timeout sendAudio on the
\* (still open) session appends as before, and every POST carries the
\* concatenation of the whole buffer.
C8_TimeoutLeavesSessionUsable ==
    [][/\ (wPc = "sleep" /\ wPc' # "sleep" /\ ~ended)
             => wReturn' = Failure("TranscriptTimeout")
       /\ (wPc # "post" /\ wReturn' = Failure("TranscriptTimeout"))
             => /\ wPc' = "idle"
                /\ wPayload' = wPayload
                /\ chunks' = chunks
                /\ ended' = ended
       /\ (timedOut /\ ~ended /\ lastCall'.method = "sendAudio")
             => /\ lastCall'.result = Resolved
                /\ \E a \in Audio : chunks' = Append(chunks, a)
       /\ (timedOut /\ lastCall'.method = "endAudio")
             => (lastCall'.result = Resolved /\ ended' /\ chunks' = chunks)
       /\ (wPc # "post" /\ wPc' = "post")
             => (ended /\ wPayload' = Concat(chunks))
      ]_vars

C8_Witness ==
    /\ timedOut
    /\ ~closed
    /\ Len(chunks) = MaxChunks
    /\ wPc = "post"
    /\ wPayload = Concat(chunks)

\* C9: once close() has been called on a session, no waitForTranscript call
\* made on it issues a transcription POST.
C9_NoPostAfterClose ==
    [][closed => ~(wPc = "idle" /\ wPc' = "post")]_vars

\* C10: close() returns without error from every state of the session and
\* leaves ended true and the buffer empty; a close() that follows a close()
\* changes nothing.
C10_CloseIsIdempotent ==
    [][lastCall'.method = "close"
         => /\ lastCall'.result = Resolved
            /\ ended'
            /\ chunks' = <<>>
            /\ (lastCall.method = "close" => (chunks' = chunks /\ ended' = ended))
      ]_vars

C10_Witness ==
    /\ closed
    /\ ended
    /\ chunks = <<>>
    /\ lastCall = Returned("close", Resolved)

\* C11: the payload waitForTranscript posts for a session ended by endAudio is
\* the concatenation of the chunks sendAudio accepted, in the order they were
\* sent: none dropped, none doubled, none moved.
C11_PayloadIsChunksInOrder ==
    [][(wPc # "post" /\ wPc' = "post" /\ ~closed') => wPayload' = Concat(sent')]_vars

C11_Witness ==
    /\ wPc = "post"
    /\ ~closed
    /\ Len(sent) = 2
    /\ sent[1] # sent[2]
    /\ wPayload = Concat(sent)
    /\ wPayload # Concat(<<sent[2], sent[1]>>)

\* C12 as stated: a shutdown() that has requested stop for its container goes
\* on to request remove for it.
C12_RemoveAlwaysRequested ==
    [][shPc = "stop" => shPc' \in {"stop", "remove"}]_vars

\* C12: a shutdown() called with containerId set requests stop for that
\* container, and remove after a stop that succeeded and only then; when stop
\* or remove fails the call returns all the same, without a further request,
\* and containerId is unset whenever it returns.
C12_ShutdownStopsThenRemoves ==
    [][/\ (shPc = "idle" /\ shPc' # "idle")
          => (containerId # NoContainer /\ shPc' = "stop" /\ shTarget' = containerId)
       /\ (shPc = "idle" /\ containerId # NoContainer /\ shTarget' # shTarget)
          => (shPc' = "stop" /\ shTarget' = containerId)
       /\ shPc' = "remove" => (shPc \in {"stop", "remove"} /\ shTarget' = shTarget)
       /\ shPc = "stop" => shPc' \in {"stop", "remove", "idle"}
       /\ shPc = "remove" => shPc' \in {"remove", "idle"}
       /\ (shPc # "idle" /\ shPc' = "idle") => containerId' = NoContainer
      ]_vars

\* stop() failed: the container still runs, the call has returned and
\* containerId is unset.
C12_Witness ==
    /\ shPc = "idle"
    /\ containerId = NoContainer
    /\ InFlight = {}
    /\ \E k \in ContainerIds : containers[k] = "running"

\* C13: a shutdown() called when shutdown() has returned before it (containerId
\* is unset), with or without a Docker client, issues no stop and no remove,
\* returns at once and leaves containerId unset.
C13_ShutdownIsIdempotent ==
    [][/\ (shPc # "idle" /\ shPc' = "idle") => containerId' = NoContainer
       /\ (shPc = "idle" /\ containerId = NoContainer)
            => /\ shPc' = "idle"
               /\ shTarget' = shTarget
               /\ (containerId' # NoContainer => \E o \in Ops : opPc[o] = "start")
      ]_vars

\* A shutdown() has stopped the started container and returned; the next call
\* finds containerId unset and a Docker client.
C13_Witness ==
    /\ shPc = "idle"
    /\ containerId = NoContainer
    /\ docker
    /\ InFlight = {}
    /\ \A k \in ContainerIds : containers[k] = "absent"
    /\ ENABLED ShutdownCall

\* C14: whatever the pull's outcome, a start operation goes on from the pull to
\* createContainer with its callers still waiting, and no caller is handed a
\* pull error; an operation that leaves createContainer or container.start()
\* without the next step fails, and its callers get the Docker error.
C14_PullFailureIsNotFatal ==
    [][\A o \in Ops :
         /\ (opPc[o] = "pull" /\ opPc'[o] # "pull")
              => /\ opPc'[o] = "create"
                 /\ \A c \in Callers : Awaits(c, o) => (pc'[c] = "await" /\ outcome'[c] = None)
         /\ (opPc[o] = "create" /\ opPc'[o] # "create")
              => \/ opPc'[o] = "start"
                 \/ /\ opPc'[o] = "none"
                    /\ \A c \in Callers : Awaits(c, o) => outcome'[c] = Failure("DockerError")
         /\ (opPc[o] = "start" /\ opPc'[o] # "start")
              => \/ opPc'[o] = "probe"
                 \/ /\ opPc'[o] = "none"
                    /\ \A c \in Callers : Awaits(c, o) => outcome'[c] = Failure("DockerError")
      ]_vars

\* An operation past its pull polls the health of the container it started.
C14_Witness ==
    \E o \in Ops :
        /\ opPc[o] = "probe"
        /\ opContainer[o] # NoContainer
        /\ containers[opContainer[o]] = "running"
        /\ \E c \in Callers : Awaits(c, o)

Success(resp) == resp.status >= 200 /\ resp.status <= 299
TextOf(resp) == IF resp.text = <<>> THEN TextResult("") ELSE TextResult(resp.text[1])

\* C15: a response with a status in 200..299 makes transcribe and
\* waitForTranscript return the body's text field when the body has one (the
\* empty string included) and the empty string when it has none, never an error.
C15_SuccessReturnsText ==
    /\ \A c \in Callers : (reply[c] # NoReply /\ Success(reply[c])) => outcome[c] = TextOf(reply[c])
    /\ (wReply # NoReply /\ Success(wReply)) => wReturn = TextOf(wReply)

\* transcribe got a body without a text field, waitForTranscript the empty text.
C15_Witness ==
    /\ \E c \in Callers :
          /\ Success(reply[c])
          /\ reply[c].text = <<>>
          /\ outcome[c] = TextResult("")
    /\ Success(wReply)
    /\ wReply.text = <<"">>
    /\ wReturn = TextResult("")

Answered(resp) == resp # NoReply /\ resp.status # 0

\* C16: a response with a status outside 200..299 makes transcribe and
\* waitForTranscript fail with RemoteServerError carrying that status and the
\* response body, whatever the body holds; no transcript is returned.
C16_NonSuccessFails ==
    /\ \A c \in Callers :
          (Answered(reply[c]) /\ ~Success(reply[c]))
             => outcome[c] = RemoteServerError(reply[c].status, reply[c].body)
    /\ (Answered(wReply) /\ ~Success(wReply))
          => wReturn = RemoteServerError(wReply.status, wReply.body)
    /\ \A c \in Callers : outcome[c].tag = "text" => Success(reply[c])
    /\ wReturn.tag = "text" => Success(wReply)

\* A 404 whose body has a text field, and a 300, both reported with their status.
C16_Witness ==
    /\ \E c \in Callers :
          /\ reply[c].status = 404
          /\ reply[c].text = <<"hello world">>
          /\ outcome[c] = RemoteServerError(404, reply[c].body)
    /\ wReply.status = 300
    /\ wReturn = RemoteServerError(300, wReply.body)

ModelNames == {"tiny", "base", "small", "medium", "large-v3"}

\* C17: a provider built with a model outside the five valid ones is built,
\* and its validateConfig() fails with InvalidModel whatever its port.
C17_InvalidModelRejected ==
    (lastInit # NoInit /\ lastInit.config.model \notin ModelNames)
        => lastInit.result = Failure("InvalidModel")

C17_Witness ==
    /\ lastInit # NoInit
    /\ lastInit.config.model = "invalid-model"
    /\ lastInit.config.port = 65536
    /\ lastInit.result = Failure("InvalidModel")

InRange(port) == port >= 1024 /\ port <= 65535

\* C18 as stated: every provider whose port lies outside [1024, 65535] fails
\* validateConfig() with InvalidPort.
C18_OutsidePortIsInvalidPort ==
    (lastInit # NoInit /\ ~InRange(lastInit.config.port))
        => lastInit.result = Failure("InvalidPort")

\* C18: validateConfig() of a provider with a valid model fails with
\* InvalidPort when the port lies outside [1024, 65535] and succeeds when it
\* lies inside, the bounds included.
C18_PortRangeDecides ==
    (lastInit # NoInit /\ lastInit.config.model \in ModelNames)
        => lastInit.result =
             (IF InRange(lastInit.config.port) THEN Resolved ELSE Failure("InvalidPort"))

C18_Witness ==
    /\ lastInit # NoInit
    /\ lastInit.config.model = "large-v3"
    /\ lastInit.config.port = 1023
    /\ lastInit.result = Failure("InvalidPort")

\* C19: an init() whose configuration has an invalid model rejects with the
\* invalid-model error and registers no STT provider on the host context.
C19_InvalidInitRegistersNothing ==
    [][(lastInit' # NoInit /\ lastInit'.config.model \notin ModelNames)
         => /\ lastInit'.result = Failure("InvalidModel")
            /\ ~lastInit'.registered
            /\ sttProviders' = sttProviders
      ]_vars

C19_Witness ==
    /\ lastInit # NoInit
    /\ lastInit.config.model = "invalid-model"
    /\ lastInit.result = Failure("InvalidModel")
    /\ ~sttProviders[lastInit.context]
    /\ schemas[lastInit.context]

Descending(cs, from, to) ==
    [k \in 1..(from - to + 1) |-> <<from - k + 1, cs[from - k + 1]>>]

\* C20: a plugin shutdown() invokes the cleanups registered when it was called
\* from the last registered to the first (a provider's shutdown before the
\* schema unregistration of the same init), each exactly once, also behind
\* cleanups that threw or rejected, and then returns.
C20_CleanupsRunInReverse ==
    /\ plPc = "idle" => ran = Descending(plSnapshot, Len(plSnapshot), 1)
    /\ plPc = "await" => /\ plIndex \in 1..Len(plSnapshot)
                         /\ ran = Descending(plSnapshot, Len(plSnapshot), plIndex)

\* Two inits' cleanups were run, the provider's shutdown first, and a schema is
\* still registered on the one context used: its unregistration failed.
C20_Witness ==
    /\ plPc = "idle"
    /\ ctx = NoContext
    /\ plSnapshot = <<Unregister, ProviderShutdown, Unregister, ProviderShutdown>>
    /\ ran[1] = <<4, ProviderShutdown>>
    /\ ran[4] = <<1, Unregister>>
    /\ schemas[1]
    /\ ~schemas[2]
    /\ ~sttProviders[2]

\* C21: a plugin shutdown() that finds no cleanups invokes nothing; every
\* shutdown() that returns leaves the cleanup list empty and the saved context
\* null; an init() with a valid configuration that finds the list empty
\* registers the schema and the provider on its context and leaves exactly
\* their two cleanups; and the shutdown() of such a single init calls
\* unregisterConfigSchema on that context.
C21_ShutdownResetsModule ==
    [][/\ (lastInit' = NoInit /\ plSnapshot' = <<>>) => (ran' = <<>> /\ unregOn' = {})
       /\ (lastInit' = NoInit /\ plPc' = "idle") => (cleanups' = <<>> /\ ctx' = NoContext)
       /\ (lastInit' # NoInit /\ plPc = "idle" /\ cleanups = <<>>
             /\ lastInit'.result = Resolved)
            => /\ ctx' = lastInit'.context
               /\ cleanups' = <<Unregister, ProviderShutdown>>
               /\ schemas'[ctx'] /\ sttProviders'[ctx']
               /\ regOn' = {ctx'}
       /\ (lastInit' = NoInit /\ plPc' = "idle" /\ Len(cleanups) = Len(plSnapshot')
             /\ plSnapshot' = <<Unregister, ProviderShutdown>>)
            => /\ unregOn' = regOn
               /\ Cardinality(regOn) = 1
               /\ ran' = <<(<<2, ProviderShutdown>>), (<<1, Unregister>>)>>
      ]_vars

\* The shutdown() of a single valid init has returned: both cleanups ran, the
\* list is empty, the context null and the schema call went to the context.
C21_Witness ==
    /\ plPc = "idle"
    /\ plSnapshot = <<Unregister, ProviderShutdown>>
    /\ Len(ran) = 2
    /\ cleanups = <<>>
    /\ ctx = NoContext
    /\ Cardinality(unregOn) = 1
    /\ regOn = {}

ConfiguredModel(config) ==
    IF config.model = Absent THEN DEFAULT_CONFIG.model ELSE config.model[1]

\* C22: a listModels call that succeeds reports the five models tiny, base,
\* small, medium, large-v3, whatever the current model, and as currentModel the
\* model of the configuration the provider was built from.
C22_ListModelsReportsFiveAndCurrent ==
    (hReply.tool = "listModels" /\ hReply.error = "")
      => /\ configured # Absent
         /\ hReply.models = <<"tiny", "base", "small", "medium", "large-v3">>
         /\ hReply.currentModel = ConfiguredModel(configured[1])

\* listModels has answered for a provider configured with large-v3.
C22_Witness ==
    /\ hReply.tool = "listModels"
    /\ hReply.error = ""
    /\ configured = Given([model |-> Given("large-v3"), port |-> Absent])
    /\ hReply.currentModel = "large-v3"
    /\ Len(hReply.models) = 5

\* C23: the start guard is null exactly when no start operation is in flight,
\* and a non-null guard names an operation that is in flight.
C23_GuardCoversStartsInFlight ==
    /\ InFlight = {} <=> startingServer = NoOp
    /\ startingServer # NoOp => startingServer \in InFlight

\* C24: every container that exists (created and not stopped) is the one in
\* containerId, or is held by a start operation still in flight.
C24_ContainerIdRecordsEveryContainer ==
    \A k \in ContainerIds :
        containers[k] # "absent"
          => k = containerId \/ \E o \in InFlight : opContainer[o] = k

\* C25: once a shutdown() that overtook a start operation has returned, and
\* until a new start begins, containerId is unset and no container of such an
\* operation is running.
C25_ShutdownLeavesNoContainer ==
    torn # {}
      => /\ containerId = NoContainer
         /\ \A o \in torn \cap InFlight :
              opContainer[o] = NoContainer \/ containers[opContainer[o]] # "running"

\* How the promise of a start operation settles for a caller resumed by it.
StartSettles(o, c) == opPc[o] # "none" /\ opPc'[o] = "none" /\ Awaits(c, o)

C27_EveryRegistrationUndone ==
    [][(lastInit' = NoInit /\ plPc' = "idle") => regOn \subseteq unregOn']_vars

ExplicitOrConfigured(options, configLanguage) ==
    IF options.language # Absent THEN options.language[1] ELSE configLanguage

\* C28: the language of every transcription request, of transcribe and of a
\* session alike, is the language the caller's options carry, and the
\* provider's configured language when they carry none.
C28_LanguageIsExplicitOrConfigured ==
    lastPost # NoPost => lastPost.language = ExplicitOrConfigured(lastPost.asked, language)

\* C29: no step of a waitForTranscript call changes the buffer or the ended
\* flag, and a call that goes to its POST posts the concatenation of the
\* buffer as it is: two calls in a row post the same payload.
C29_WaitLeavesSession ==
    [][lastCall' = NoCall
         => /\ chunks' = chunks
            /\ ended' = ended
            /\ (wPc # "post" /\ wPc' = "post") => wPayload' = Concat(chunks')
      ]_vars

\* A call on an ended session has returned from its POST and the two buffered
\* chunks are still there.
C29_Witness ==
    /\ wReturn # None
    /\ wReply # NoReply
    /\ wPc = "idle"
    /\ ended
    /\ Len(chunks) > 1
    /\ chunks = sent

====
